---- MODULE Spec2Model ----
(***************************************************************************)
(* The translation pipeline of the Chrome translation extension:           *)
(*   extension/background.js  message listener, translateText,             *)
(*                            getCachedTranslation, cacheTranslation,      *)
(*                            context-menu listener                        *)
(*   extension/popup.js       handleTranslate                              *)
(*   extension/content.js     handleTextSelection and its debounce timer,  *)
(*                            showTranslationBox, translateSelectedText,   *)
(*                            displayTranslationResult / Error,            *)
(*                            hideTranslationBox                           *)
(*   unnamed/part_001         the content script that calls the backend    *)
(*                            itself                                       *)
(*                                                                         *)
(* A text is a sequence of characters; a language code is a sequence of    *)
(* tokens, so that the cache key is the concatenation the template string  *)
(* of background.js:50 builds.  Time is counted in units of 12 hours, so   *)
(* the 24h of background.js:90 is TTL = 2; the clock of the page counts    *)
(* units of 150 ms, so the 300 ms of content.js:35 is DebounceDelay = 2.   *)
(***************************************************************************)
EXTENDS Integers, Sequences, FiniteSets, TLC

\* ---------------------------------------------------------------- bounds
\* number of messages the background script receives in one behaviour
MaxReq == 2
\* last day the clock reaches (the clock itself counts units of 12h)
MaxTime == 2
\* last value of the clock of the page (in units of 150 ms)
MaxClock == 3

\* ------------------------------------------------------ program constants
\* 24 * 60 * 60 * 1000 ms, in units of 12h (background.js:90)
TTL == 2
\* maxCacheEntries of the configuration surface; background.js never reads it
MaxCacheEntries == 1

\* ------------------------------------------------------------ data values
Char == {"a", "b", " ", "1"}
Whitespace == {" "}
\* the characters /[a-zA-Z]/ matches
Letters == {"a", "b"}

\* the texts a message may carry: one that is empty after trimming, one
\* that is not
Texts == {<<" ">>, <<"a">>}

\* two texts the data model admits
ValidTexts == {<<"a">>, <<"a", "a">>}

Undefined == <<"undefined">>
EN == <<"en">>
ZHCN == <<"zh-cn">>
AUTO == <<"auto">>

\* what a message may carry as sourceLang / targetLang
SourceLangs == {Undefined, EN}
TargetLangs == {Undefined, ZHCN}

\* JavaScript truthiness of a string-or-undefined value
Truthy(s) == s # Undefined /\ s # <<>>

\* a || b
OrElse(a, b) == IF Truthy(a) THEN a ELSE b

RECURSIVE TrimStart(_)
TrimStart(s) ==
  IF s = <<>> THEN <<>>
  ELSE IF Head(s) \in Whitespace THEN TrimStart(Tail(s)) ELSE s

RECURSIVE TrimEnd(_)
TrimEnd(s) ==
  IF s = <<>> THEN <<>>
  ELSE IF s[Len(s)] \in Whitespace THEN TrimEnd(SubSeq(s, 1, Len(s) - 1)) ELSE s

\* String.prototype.trim
Trim(s) == TrimEnd(TrimStart(s))

\* cacheKey without the target language
cacheKey_NoTarget(text, sourceLang, targetLang) ==
  <<"translate_">> \o text \o <<"_">> \o sourceLang

\* `translate_${text}_${sourceLang}_${targetLang}`
cacheKey(text, sourceLang, targetLang) ==
  <<"translate_">> \o text \o <<"_">> \o sourceLang \o <<"_">> \o targetLang

\* ------------------------------------------------------- upstream answers
\* The JSON bodies the backend may answer with on an OK status: the body
\* `null`, a translation the backend made afresh and a (different)
\* translation the backend served from its own cache.
Null == [kind |-> "null", translation |-> "", cached |-> FALSE]
Bodies ==
  {Null,
   [kind |-> "object", translation |-> "T1", cached |-> FALSE],
   [kind |-> "object", translation |-> "T2", cached |-> TRUE]}

\* a fetch answered with an OK status and a translation object
Translated ==
  {[kind |-> "ok", body |-> b] : b \in Bodies \ {Null}}

\* response.status of the answers for which response.ok is false, as the
\* template string of background.js:70 prints it
Statuses == {"404", "500"}

\* what a fetch (with the response.json() that follows it) may end in: a
\* rejected fetch, a non-OK status, an unparsable body, or a parsed body
FetchOutcomes ==
  {[kind |-> "network"], [kind |-> "unparsable"]} \cup
  {[kind |-> "status", status |-> s] : s \in Statuses} \cup
  {[kind |-> "ok", body |-> b] : b \in Bodies}

JsTruthy(v) == v.kind # "null"

\* ------------------------------------------------------------------ state
VARIABLES
  storage,   \* chrome.storage.local: cache key -> [data, timestamp]
  now,       \* Date.now(), in units of 12h
  n,         \* number of messages the background listener has received
  req,       \* req[r]: the r-th message and the translateText call it started
  popup,     \* the popup document: isTranslating, the message it awaits, error shown
  page,      \* the content script of the page: isTranslating, what it awaits
  caller,    \* caller[r]: the entry point that sent message r, and what became of it
  dom        \* the document of the page: selection, debounce timers, translation box

\* the user-interface contexts, which the background script leaves alone
ui == <<popup, page, caller, dom>>

vars == <<storage, now, n, req, popup, page, caller, dom>>

Reqs == 1..MaxReq

\* a message that has not arrived yet.  action is request.action and
\* responses the number of times the listener has called sendResponse for the
\* message.  lookup, stale, peers, prior, outcome, stored and age are
\* history (age: how old the entry was that the lookup of the call returned):
\* what the cache lookup of the call found (kept
\* while the call is pending), whether the entry of its key was older than
\* the TTL when it arrived, which earlier requests for the same tuple were
\* pending / had succeeded when it arrived, how the fetch of the call ended
\* and whether its chrome.storage.local.set resolved.
NoReq ==
  [pc |-> "none", text |-> <<>>, sourceLang |-> <<>>, targetLang |-> <<>>,
   body |-> Null, stamp |-> 0, response |-> [success |-> FALSE, error |-> <<>>],
   fetched |-> 0, lookup |-> "none", stale |-> FALSE,
   peers |-> {}, prior |-> {}, outcome |-> [kind |-> "none"], stored |-> FALSE,
   action |-> "none", responses |-> 0, age |-> 0]

KeyOf(r) == cacheKey(req[r].text, req[r].sourceLang, req[r].targetLang)

Pending(r) == req[r].pc \in {"get", "fetch", "set"}

Succeeded(r) == req[r].pc = "responded" /\ req[r].response.success

\* Fresh with the comparison made inclusive
Fresh_Inclusive(entry, t) == t - entry.timestamp <= TTL

\* Date.now() - cached.timestamp < 24 * 60 * 60 * 1000
Fresh(entry, t) == t - entry.timestamp < TTL

\* What getCachedTranslation finds: "error" when storage.get rejects,
\* "absent" when there is no entry, "expired" when the entry is not fresh,
\* otherwise "found" (cached.data is returned; translateText takes it for a
\* miss all the same when it is falsy: "falsy" in the lookup field).
Lookup(store, key, t, readOk) ==
  IF ~readOk THEN "error"
  ELSE IF key \notin DOMAIN store THEN "absent"
  ELSE IF ~Fresh(store[key], t) THEN "expired"
  ELSE "found"

\* the value getCachedTranslation returns: cached.data or null
getCachedTranslation(store, key, t, readOk) ==
  IF Lookup(store, key, t, readOk) = "found" THEN store[key].data ELSE Null

\* the store after chrome.storage.local.set({[key]: {data, timestamp}})
\* resolved (writeOk) or rejected; cacheTranslation swallows the rejection
cacheTranslation(store, key, data, stamp, writeOk) ==
  IF writeOk
  THEN [k \in DOMAIN store \cup {key} |->
          IF k = key THEN [data |-> data, timestamp |-> stamp] ELSE store[k]]
  ELSE store

\* ErrorOf with the same message for every status
ErrorOf_NoStatus(o) ==
  CASE o.kind = "network" -> <<"Failed to fetch">>
    [] o.kind = "status" -> <<"service error">>
    [] o.kind = "unparsable" -> <<"Unexpected token">>

\* error.message of the Error translateText throws for a failed fetch
\* (the message of background.js:70 is `<service error text>: ${status}`)
ErrorOf(o) ==
  CASE o.kind = "network" -> <<"Failed to fetch">>
    [] o.kind = "status" -> <<"service error: ", o.status>>
    [] o.kind = "unparsable" -> <<"Unexpected token">>

\* ------------------------------------------------- user-interface values
\* maxTextLength of the configuration surface (5000 characters, scaled); no
\* script reads it
MaxTextLength == 2
\* the 500 of content.js:27, on the same scale
SelectionLimit == 2

\* what the popup's input field, the page's selection and the selection
\* handed to the context menu may hold
PopupInputs == {<<" ">>, <<" ", "a">>}
Selections == {<<"a">>, <<"1">>, <<"a", "a">>}
MenuSelections == {<<"a">>, <<"a", "a", "a">>}

\* the values of the popup's two language selects
PopupSourceLangs == {EN, ZHCN}
PopupTargetLangs == {ZHCN}

\* the content script the page runs: content.js, which sends a message to
\* the background script, or part_001, which calls the backend itself
Scripts == {"content.js", "part_001"}

\* the messages showError is called with in handleTranslate
EmptyTextError == <<"empty text">>
SameLangError == <<"same language">>

RECURSIVE Count(_, _)
\* the number of elements of s that are in set
Count(s, set) ==
  IF s = <<>> THEN 0
  ELSE (IF Head(s) \in set THEN 1 ELSE 0) + Count(Tail(s), set)

\* englishChars.length / totalChars > 0.5 (0 / 0 is NaN, which is not)
isEnglishText(text) ==
  2 * Count(text, Letters) > Count(text, Char \ Whitespace)

\* a popup, or a content script, that has just been loaded
FreshPopup == [isTranslating |-> FALSE, awaiting |-> 0, error |-> <<>>]
FreshPage(script) ==
  [script |-> script, isTranslating |-> FALSE, awaiting |-> 0,
   fetching |-> <<>>, prior |-> {}]

\* the 300 ms of content.js:35, in units of 150 ms
DebounceDelay == 2

\* translationBox when it is null, and window.translationTimeout before the
\* first setTimeout
NoBox == [state |-> "none", text |-> <<>>]
NoTimer == [text |-> <<>>, due |-> 0]

\* The document of a page that has just been loaded.  selection is
\* window.getSelection() (its text and rangeCount), timers the pending
\* setTimeout callbacks with the text each has captured and the time it is
\* due, translationTimeout the timer window.translationTimeout refers to,
\* box the translationBox and what it shows.  last (the text and time of the
\* latest selection event that set a timer), cancelled (the text of the
\* timer that event cleared) and via (the handler that started the page's
\* translation in flight) are history.
FreshDom ==
  [selection |-> [text |-> <<>>, rangeCount |-> 0],
   timers |-> {}, translationTimeout |-> NoTimer, clock |-> 0,
   box |-> NoBox, last |-> [text |-> <<>>, at |-> 0], cancelled |-> <<>>,
   via |-> "none"]

\* caller[r] of a message no entry point has sent (inFlight: the call of the
\* message was still pending when its caller went away)
NoCaller == [from |-> "none", state |-> "none", inFlight |-> FALSE]

Init ==
  /\ storage = <<>>
  /\ now = 0
  /\ n = 0
  /\ req = [r \in Reqs |-> NoReq]
  /\ popup = FreshPopup
  /\ page = FreshPage("content.js")
  /\ caller = [r \in Reqs |-> NoCaller]
  /\ dom = FreshDom

\* the error of the answer to a message whose action is not "translate"
UnknownAction == <<"Unknown action">>

\* request.action of the messages that are not translation requests
OtherActions == {"getSettings"}

\* Receive without the `return true` that ends the "translate" branch: the
\* listener falls through to the sendResponse of background.js:43
Receive_FallsThrough(text, sl, tl) ==
  /\ n < MaxReq
  /\ n' = n + 1
  /\ LET src == OrElse(sl, EN)
         tgt == OrElse(tl, ZHCN)
     IN req' = [req EXCEPT ![n + 1] =
                  [NoReq EXCEPT !.pc = "get", !.action = "translate", !.text = text,
                                !.sourceLang = src, !.targetLang = tgt,
                                !.responses = 1,
                                !.response = [success |-> FALSE, error |-> UnknownAction]]]
  /\ UNCHANGED <<storage, now>>

\* Receive with "auto" as the default source language
Receive_DefaultAuto(text, sl, tl) ==
  /\ n < MaxReq
  /\ n' = n + 1
  /\ LET src == OrElse(sl, AUTO)
         tgt == OrElse(tl, ZHCN)
         same == {p \in 1..n : /\ req[p].text = text
                               /\ req[p].sourceLang = src
                               /\ req[p].targetLang = tgt}
     IN req' = [req EXCEPT ![n + 1] =
                  [NoReq EXCEPT !.pc = "get", !.action = "translate", !.text = text,
                                !.sourceLang = src, !.targetLang = tgt,
                                !.stale =
                                  LET k == cacheKey(text, src, tgt)
                                  IN k \in DOMAIN storage
                                     /\ now - storage[k].timestamp > TTL,
                                !.peers = {p \in same : Pending(p)},
                                !.prior = {p \in same : Succeeded(p)}]]
  /\ UNCHANGED <<storage, now>>

\* The listener receives {action: "translate", text, sourceLang, targetLang}
\* and calls translateText, which runs up to its first await
\* (chrome.storage.local.get inside getCachedTranslation).
Receive(text, sl, tl) ==
  /\ n < MaxReq
  /\ n' = n + 1
  /\ LET src == OrElse(sl, EN)
         tgt == OrElse(tl, ZHCN)
         same == {p \in 1..n : /\ req[p].text = text
                               /\ req[p].sourceLang = src
                               /\ req[p].targetLang = tgt}
     IN req' = [req EXCEPT ![n + 1] =
                  [NoReq EXCEPT !.pc = "get", !.action = "translate", !.text = text,
                                !.sourceLang = src, !.targetLang = tgt,
                                !.stale =
                                  LET k == cacheKey(text, src, tgt)
                                  IN k \in DOMAIN storage
                                     /\ now - storage[k].timestamp > TTL,
                                !.peers = {p \in same : Pending(p)},
                                !.prior = {p \in same : Succeeded(p)}]]
  /\ UNCHANGED <<storage, now>>

\* The listener receives a message whose action is not "translate": the
\* branch of background.js:29 is skipped and background.js:43 answers at once.
ReceiveOther(action) ==
  /\ n < MaxReq
  /\ n' = n + 1
  /\ req' = [req EXCEPT ![n + 1] =
               [NoReq EXCEPT !.pc = "responded", !.action = action,
                             !.responses = 1,
                             !.response = [success |-> FALSE, error |-> UnknownAction]]]
  /\ UNCHANGED <<storage, now, ui>>

\* GetSettles with a hit that stores the entry again, stamped Date.now()
GetSettles_Refreshes(r, readOk) ==
  /\ req[r].pc = "get"
  /\ LET found == Lookup(storage, KeyOf(r), now, readOk)
         cached == getCachedTranslation(storage, KeyOf(r), now, readOk)
     IN IF JsTruthy(cached)
        THEN /\ req' = [req EXCEPT ![r].pc = "responded",
                                   ![r].responses = @ + 1,
                                   ![r].age = now - storage[KeyOf(r)].timestamp,
                                   ![r].body = cached,
                                   ![r].response = [success |-> TRUE, data |-> cached]]
             /\ storage' = cacheTranslation(storage, KeyOf(r), cached, now, TRUE)
        ELSE /\ req' = [req EXCEPT ![r].pc = "fetch",
                                   ![r].lookup = IF found = "found" THEN "falsy" ELSE found,
                                   ![r].fetched = 1]
             /\ UNCHANGED storage
  /\ UNCHANGED <<now, n, ui>>

\* chrome.storage.local.get settles: a hit makes translateText return the
\* cached data and the listener send {success: true, data}; anything else
\* makes translateText call fetch.
GetSettles(r, readOk) ==
  /\ req[r].pc = "get"
  /\ LET found == Lookup(storage, KeyOf(r), now, readOk)
         cached == getCachedTranslation(storage, KeyOf(r), now, readOk)
     IN IF JsTruthy(cached)
        THEN req' = [req EXCEPT ![r].pc = "responded",
                                ![r].responses = @ + 1,
                                ![r].age = now - storage[KeyOf(r)].timestamp,
                                ![r].body = cached,
                                ![r].response = [success |-> TRUE, data |-> cached]]
        ELSE req' = [req EXCEPT ![r].pc = "fetch",
                                ![r].lookup = IF found = "found" THEN "falsy" ELSE found,
                                ![r].fetched = 1]
  /\ UNCHANGED <<storage, now, n, ui>>

\* FetchSettles with a failure remembered in the cache
FetchSettles_CachesFailure(r, o) ==
  /\ req[r].pc = "fetch"
  /\ IF o.kind = "ok"
     THEN /\ req' = [req EXCEPT ![r].pc = "set", ![r].body = o.body, ![r].stamp = now,
                                ![r].outcome = o]
          /\ UNCHANGED storage
     ELSE /\ req' = [req EXCEPT ![r].pc = "responded", ![r].lookup = "none",
                                ![r].outcome = o, ![r].responses = @ + 1,
                                ![r].response = [success |-> FALSE, error |-> ErrorOf(o)]]
          /\ storage' = cacheTranslation(storage, KeyOf(r),
                           [kind |-> "error", translation |-> "", cached |-> FALSE],
                           now, TRUE)
  /\ UNCHANGED <<now, n, ui>>

\* FetchSettles with a failure swallowed: translateText returns null and the
\* listener answers with success
FetchSettles_SwallowsFailure(r, o) ==
  /\ req[r].pc = "fetch"
  /\ IF o.kind = "ok"
     THEN req' = [req EXCEPT ![r].pc = "set", ![r].body = o.body, ![r].stamp = now,
                             ![r].outcome = o]
     ELSE req' = [req EXCEPT ![r].pc = "responded", ![r].lookup = "none",
                             ![r].outcome = o, ![r].responses = @ + 1,
                             ![r].response = [success |-> TRUE, data |-> Null]]
  /\ UNCHANGED <<storage, now, n, ui>>

\* fetch (and the response.json() after it) settles.  A failure is thrown,
\* rethrown by translateText's catch and answered by the listener's catch
\* with {success: false, error: error.message}; an OK body is handed to
\* cacheTranslation, which stamps it with Date.now() and calls storage.set.
FetchSettles(r, o) ==
  /\ req[r].pc = "fetch"
  /\ IF o.kind = "ok"
     THEN req' = [req EXCEPT ![r].pc = "set", ![r].body = o.body, ![r].stamp = now,
                             ![r].outcome = o]
     ELSE req' = [req EXCEPT ![r].pc = "responded", ![r].lookup = "none",
                             ![r].outcome = o, ![r].responses = @ + 1,
                             ![r].response = [success |-> FALSE, error |-> ErrorOf(o)]]
  /\ UNCHANGED <<storage, now, n, ui>>

\* SetSettles with a rejected chrome.storage.local.set that is not caught: it
\* fails the translation
SetSettles_WriteErrorFails(r, writeOk) ==
  /\ req[r].pc = "set"
  /\ storage' = cacheTranslation(storage, KeyOf(r), req[r].body, req[r].stamp, writeOk)
  /\ req' = [req EXCEPT ![r].pc = "responded", ![r].lookup = "none",
                        ![r].stored = writeOk, ![r].responses = @ + 1,
                        ![r].response =
                          IF writeOk THEN [success |-> TRUE, data |-> req[r].body]
                          ELSE [success |-> FALSE, error |-> <<"QuotaExceeded">>]]
  /\ UNCHANGED <<now, n, ui>>

\* chrome.storage.local.set settles; translateText returns the result and
\* the listener sends {success: true, data: result}.
SetSettles(r, writeOk) ==
  /\ req[r].pc = "set"
  /\ storage' = cacheTranslation(storage, KeyOf(r), req[r].body, req[r].stamp, writeOk)
  /\ req' = [req EXCEPT ![r].pc = "responded", ![r].lookup = "none",
                        ![r].stored = writeOk, ![r].responses = @ + 1,
                        ![r].response = [success |-> TRUE, data |-> req[r].body]]
  /\ UNCHANGED <<now, n, ui>>

\* a day passes
Tick ==
  /\ now + TTL <= MaxTime * TTL
  /\ now' = now + TTL
  /\ UNCHANGED <<storage, n, req, ui>>

\* twelve hours pass
TickHalfDay ==
  /\ now < MaxTime * TTL
  /\ now' = now + 1
  /\ UNCHANGED <<storage, n, req, ui>>

Next ==
  \/ \E text \in Texts, sl \in SourceLangs, tl \in TargetLangs :
       Receive(text, sl, tl) /\ UNCHANGED ui
  \/ \E r \in Reqs : GetSettles(r, TRUE)
  \/ \E r \in Reqs : GetSettles(r, FALSE)
  \/ \E r \in Reqs, o \in Translated : FetchSettles(r, o)
  \/ \E r \in Reqs, o \in FetchOutcomes \ Translated : FetchSettles(r, o)
  \/ \E r \in Reqs : SetSettles(r, TRUE)
  \/ \E r \in Reqs : SetSettles(r, FALSE)
  \/ Tick

Spec == Init /\ [][Next]_vars

\* the same program when every message carries a valid text
NextValid ==
  \/ \E text \in ValidTexts, sl \in SourceLangs, tl \in TargetLangs :
       Receive(text, sl, tl) /\ UNCHANGED ui
  \/ \E r \in Reqs : GetSettles(r, TRUE)
  \/ \E r \in Reqs : GetSettles(r, FALSE)
  \/ \E r \in Reqs, o \in Translated : FetchSettles(r, o)
  \/ \E r \in Reqs, o \in FetchOutcomes \ Translated : FetchSettles(r, o)
  \/ \E r \in Reqs : SetSettles(r, TRUE)
  \/ \E r \in Reqs : SetSettles(r, FALSE)
  \/ Tick

SpecValid == Init /\ [][NextValid]_vars

\* the text of the messages of SpecListener
ListenerTexts == {<<"a">>}

\* the fetches of SpecListener that fail
ListenerFailures == {[kind |-> "network"], [kind |-> "status", status |-> "500"]}

\* The background script alone, with messages of every action and a clock
\* that advances by half the lifetime of a cache entry.
NextListener ==
  \/ \E text \in ListenerTexts, sl \in SourceLangs, tl \in TargetLangs :
       Receive(text, sl, tl) /\ UNCHANGED ui
  \/ \E a \in OtherActions : ReceiveOther(a)
  \/ \E r \in Reqs : GetSettles(r, TRUE)
  \/ \E r \in Reqs : GetSettles(r, FALSE)
  \/ \E r \in Reqs, o \in Translated : FetchSettles(r, o)
  \/ \E r \in Reqs, o \in ListenerFailures : FetchSettles(r, o)
  \/ \E r \in Reqs : SetSettles(r, TRUE)
  \/ \E r \in Reqs : SetSettles(r, FALSE)
  \/ TickHalfDay

SpecListener == Init /\ [][NextListener]_vars

\* Texts and language codes spelled character by character, the texts with
\* the separator of the cache key and with language codes inside them; the
\* codes are among those the README lists (README.md:185-195).
KeyTexts ==
  {<<"a">>, <<"_">>, <<"a", "_">>, <<"_", "e", "n">>, <<"a", "_", "e", "n">>,
   <<"a", "_", "e", "n", "_", "e", "n">>, <<"a", "_", "j", "a", "_", "e", "n">>}
KeySourceLangs == {Undefined, <<"e", "n">>, <<"j", "a">>}
KeyTargetLangs == {<<"e", "n">>, <<"z", "h", "-", "c", "n">>}

\* the record of a message the listener has just received, the default
\* languages of background.js:30 spelled character by character
Received(text, sl, tl) ==
  [NoReq EXCEPT !.pc = "get", !.action = "translate", !.text = text,
                !.sourceLang = OrElse(sl, <<"e", "n">>),
                !.targetLang = OrElse(tl, <<"z", "h", "-", "c", "n">>)]

\* two messages have just arrived, with any texts and languages
InitKey ==
  /\ storage = <<>>
  /\ now = 0
  /\ n = 2
  /\ \E t1 \in KeyTexts, t2 \in KeyTexts, s1 \in KeySourceLangs, s2 \in KeySourceLangs,
        l1 \in KeyTargetLangs, l2 \in KeyTargetLangs :
       req = [r \in Reqs |->
                IF r = 1 THEN Received(t1, s1, l1)
                ELSE IF r = 2
                THEN [Received(t2, s2, l2) EXCEPT
                        !.peers = IF Received(t2, s2, l2) = Received(t1, s1, l1)
                                  THEN {1} ELSE {}]
                ELSE NoReq]
  /\ popup = FreshPopup
  /\ page = FreshPage("content.js")
  /\ caller = [r \in Reqs |-> NoCaller]
  /\ dom = FreshDom

\* translateText runs for the two messages, reading and writing the cache
\* under the key of each
NextKey ==
  \/ \E r \in Reqs : GetSettles(r, TRUE)
  \/ \E r \in Reqs, o \in Translated : FetchSettles(r, o)
  \/ \E r \in Reqs : SetSettles(r, TRUE)

SpecKey == InitKey /\ [][NextKey]_vars

\* ------------------------------------------------------- derived notions
Responded(r) == req[r].pc = "responded"

Failed(r) == Responded(r) /\ ~req[r].response.success

SameTuple(p, r) ==
  /\ req[p].text = req[r].text
  /\ req[p].sourceLang = req[r].sourceLang
  /\ req[p].targetLang = req[r].targetLang

\* the two responses are the same outcome: the same translation, or the
\* same failure
SameOutcome(p, r) ==
  /\ req[p].response.success = req[r].response.success
  /\ req[p].response.success =>
       req[p].response.data.translation = req[r].response.data.translation
  /\ ~req[p].response.success =>
       req[p].response.error = req[r].response.error

\* a request the data model admits: its text is not empty after trimming
ValidReq(r) == req[r].pc # "none" /\ Trim(req[r].text) # <<>>

\* r was answered with a translation object
GotTranslation(r) ==
  /\ Responded(r) /\ req[r].response.success
  /\ req[r].response.data.kind = "object"

\* r's chrome.storage.local.get settles in this step
LookupStep(r) == req[r].pc = "get" /\ req'[r].pc # "get"

\* --------------------------------------------------------- entry points
core == <<storage, now, n, req>>

\* handleTranslate without the comparison of the two languages
handleTranslate_NoLangCheck(input, sourceLang, targetLang) ==
  /\ ~popup.isTranslating
  /\ LET inputText == Trim(input)
     IN IF inputText = <<>>
        THEN /\ popup' = [popup EXCEPT !.error = EmptyTextError]
             /\ UNCHANGED <<core, page, caller, dom>>
        ELSE /\ Receive(inputText, sourceLang, targetLang)
             /\ popup' = [isTranslating |-> TRUE, awaiting |-> n + 1, error |-> <<>>]
             /\ caller' = [caller EXCEPT ![n + 1] = [NoCaller EXCEPT !.from = "popup", !.state = "waiting"]]
             /\ UNCHANGED <<page, dom>>

\* handleTranslate of the popup, up to its await: the guard on
\* isTranslating, the two validations, setTranslatingState(true),
\* hideError() and the message to the background script, whose listener
\* receives it.
handleTranslate(input, sourceLang, targetLang) ==
  /\ ~popup.isTranslating
  /\ LET inputText == Trim(input)
     IN IF inputText = <<>>
        THEN /\ popup' = [popup EXCEPT !.error = EmptyTextError]
             /\ UNCHANGED <<core, page, caller, dom>>
        ELSE IF sourceLang = targetLang /\ sourceLang # AUTO
        THEN /\ popup' = [popup EXCEPT !.error = SameLangError]
             /\ UNCHANGED <<core, page, caller, dom>>
        ELSE /\ Receive(inputText, sourceLang, targetLang)
             /\ popup' = [isTranslating |-> TRUE, awaiting |-> n + 1, error |-> <<>>]
             /\ caller' = [caller EXCEPT ![n + 1] = [NoCaller EXCEPT !.from = "popup", !.state = "waiting"]]
             /\ UNCHANGED <<page, dom>>

\* translateSelectedText without the guard on isTranslating
translateSelectedText_NoGuard(text) ==
  /\ IF page.script = "content.js"
     THEN /\ Receive(text, Undefined, Undefined)
          /\ page' = [page EXCEPT !.isTranslating = TRUE, !.awaiting = n + 1]
          /\ caller' = [caller EXCEPT ![n + 1] = [NoCaller EXCEPT !.from = "page", !.state = "waiting"]]
          /\ UNCHANGED popup
     ELSE /\ page' = [page EXCEPT !.isTranslating = TRUE, !.fetching = text,
                                  !.prior = {p \in 1..n :
                                               /\ Succeeded(p)
                                               /\ req[p].text = text
                                               /\ req[p].sourceLang = EN
                                               /\ req[p].targetLang = ZHCN}]
          /\ UNCHANGED <<core, popup, caller>>

\* translateSelectedText of the script the page runs, up to its await (the
\* document is left to the handler that calls it).
\* content.js sends {action: "translate", text} to the background script;
\* part_001 calls fetch itself with source_lang "en", target_lang "zh-cn"
\* (prior: the requests for that tuple the background script had answered
\* with success by then).
translateSelectedText(text) ==
  /\ ~page.isTranslating
  /\ IF page.script = "content.js"
     THEN /\ Receive(text, Undefined, Undefined)
          /\ page' = [page EXCEPT !.isTranslating = TRUE, !.awaiting = n + 1]
          /\ caller' = [caller EXCEPT ![n + 1] = [NoCaller EXCEPT !.from = "page", !.state = "waiting"]]
          /\ UNCHANGED popup
     ELSE /\ page' = [page EXCEPT !.isTranslating = TRUE, !.fetching = text,
                                  !.prior = {p \in 1..n :
                                               /\ Succeeded(p)
                                               /\ req[p].text = text
                                               /\ req[p].sourceLang = EN
                                               /\ req[p].targetLang = ZHCN}]
          /\ UNCHANGED <<core, popup, caller>>

\* showTranslationBox(text) in the document d: nothing while a translation
\* is in flight; else the old box is removed, and unless the selection has no
\* range a new box is created (showing that it is loading) and
\* translateSelectedText is called.
showTranslationBox(text, d) ==
  IF page.isTranslating
  THEN /\ dom' = d
       /\ UNCHANGED <<core, popup, page, caller>>
  ELSE IF d.selection.rangeCount = 0
  THEN /\ dom' = [d EXCEPT !.box = NoBox]
       /\ UNCHANGED <<core, popup, page, caller>>
  ELSE /\ dom' = [d EXCEPT !.box = [state |-> "loading", text |-> text],
                           !.via = "selection"]
       /\ translateSelectedText(text)

\* handleTextSelection, the debounce timer it sets and the callback of the
\* timer, taken together for a selection that stays as it is until the timer
\* fires: a selection that is not empty after trimming, shorter than the
\* limit and English is handed to showTranslationBox; any other does nothing
\* here.
handleTextSelection(selection) ==
  LET selectedText == Trim(selection)
  IN /\ Len(selectedText) > 0
     /\ Len(selectedText) < SelectionLimit
     /\ isEnglishText(selectedText)
     /\ ~page.isTranslating
     /\ showTranslationBox(selectedText,
          [dom EXCEPT !.selection = [text |-> selection, rangeCount |-> 1]])

\* mouseup without the clearTimeout
mouseup_NoClear(sel) ==
  LET selectedText == Trim(sel.text)
  IN /\ IF Len(selectedText) > 0 /\ Len(selectedText) < SelectionLimit
        THEN LET tm == [text |-> selectedText, due |-> dom.clock + DebounceDelay]
             IN dom' = [dom EXCEPT
                          !.selection = sel,
                          !.timers = @ \cup {tm},
                          !.translationTimeout = tm,
                          !.last = [text |-> selectedText, at |-> dom.clock],
                          !.cancelled = <<>>]
        ELSE dom' = [dom EXCEPT !.selection = sel, !.box = NoBox]
     /\ UNCHANGED <<core, popup, page, caller>>

\* A mouseup or keyup after the user has made the selection sel: the
\* listener handleTextSelection runs.  For a trimmed selection of 1 to 499
\* characters it clears the timer window.translationTimeout refers to and
\* sets a new one that captures the text; for any other it removes the box.
mouseup(sel) ==
  LET selectedText == Trim(sel.text)
  IN /\ IF Len(selectedText) > 0 /\ Len(selectedText) < SelectionLimit
        THEN LET tm == [text |-> selectedText, due |-> dom.clock + DebounceDelay]
             IN dom' = [dom EXCEPT
                          !.selection = sel,
                          !.timers = (@ \ {dom.translationTimeout}) \cup {tm},
                          !.translationTimeout = tm,
                          !.last = [text |-> selectedText, at |-> dom.clock],
                          !.cancelled = IF dom.translationTimeout \in dom.timers
                                        THEN dom.translationTimeout.text ELSE <<>>]
        ELSE dom' = [dom EXCEPT !.selection = sel, !.box = NoBox]
     /\ UNCHANGED <<core, popup, page, caller>>

\* The timer tm is due and its callback runs: an English text is handed to
\* showTranslationBox.
translationTimeout(tm) ==
  /\ tm \in dom.timers
  /\ dom.clock >= tm.due
  /\ LET d == [dom EXCEPT !.timers = @ \ {tm}]
     IN IF isEnglishText(tm.text)
        THEN showTranslationBox(tm.text, d)
        ELSE /\ dom' = d
             /\ UNCHANGED <<core, popup, page, caller>>

\* A click outside the box, or a scroll: hideTranslationBox.
hideTranslationBox ==
  /\ dom.box # NoBox
  /\ dom' = [dom EXCEPT !.box = NoBox]
  /\ UNCHANGED <<core, popup, page, caller>>

\* 150 ms pass on the page
TimePasses ==
  /\ dom.clock < MaxClock
  /\ dom' = [dom EXCEPT !.clock = @ + 1]
  /\ UNCHANGED <<core, popup, page, caller>>

\* displayTranslationResult / displayTranslationError for the answer to
\* message r: nothing when there is no translationBox; a result that is null
\* makes displayTranslationResult throw, and the catch shows the error.
Display(r) ==
  [dom EXCEPT
     !.via = "none",
     !.box = IF dom.box = NoBox THEN NoBox
             ELSE [state |-> IF req[r].response.success
                                /\ req[r].response.data.kind = "object"
                             THEN "result" ELSE "error",
                   text |-> req[r].text]]

\* The context-menu listener of the background script forwards
\* info.selectionText to the content script of the tab, whose message
\* listener calls translateSelectedText with it.
contextMenuClicked(selectionText) ==
  /\ selectionText # <<>>
  /\ translateSelectedText(selectionText)
  /\ dom' = [dom EXCEPT !.via = "menu"]

\* Deliver with isTranslating reset after a success only
Deliver_KeepsFlagOnFailure(r) ==
  /\ Responded(r)
  /\ caller[r].state = "waiting"
  /\ caller' = [caller EXCEPT ![r].state = "delivered"]
  /\ IF caller[r].from = "popup"
     THEN /\ popup' = [isTranslating |-> ~req[r].response.success, awaiting |-> 0,
                       error |-> IF req[r].response.success
                                 THEN <<>> ELSE req[r].response.error]
          /\ UNCHANGED <<page, dom>>
     ELSE /\ page' = [page EXCEPT !.isTranslating = ~req[r].response.success,
                                  !.awaiting = 0]
          /\ dom' = Display(r)
          /\ UNCHANGED popup
  /\ UNCHANGED core

\* The callback of chrome.runtime.sendMessage runs in the entry point that
\* sent message r: the result or the error is shown and the finally block
\* resets isTranslating.
Deliver(r) ==
  /\ Responded(r)
  /\ caller[r].state = "waiting"
  /\ caller' = [caller EXCEPT ![r].state = "delivered"]
  /\ IF caller[r].from = "popup"
     THEN /\ popup' = [isTranslating |-> FALSE, awaiting |-> 0,
                       error |-> IF req[r].response.success
                                 THEN <<>> ELSE req[r].response.error]
          /\ UNCHANGED <<page, dom>>
     ELSE /\ page' = [page EXCEPT !.isTranslating = FALSE, !.awaiting = 0]
          /\ dom' = Display(r)
          /\ UNCHANGED popup
  /\ UNCHANGED core

\* The fetch part_001 made settles, in whichever way: the result or the
\* error is shown (in the box, if there is one) and the finally block resets
\* isTranslating.
DirectSettles ==
  /\ page.fetching # <<>>
  /\ page' = [page EXCEPT !.isTranslating = FALSE, !.fetching = <<>>, !.prior = {}]
  /\ \E shown \in {"result", "error"} :
       dom' = [dom EXCEPT
                 !.via = "none",
                 !.box = IF dom.box = NoBox THEN NoBox
                         ELSE [state |-> shown, text |-> page.fetching]]
  /\ UNCHANGED <<core, popup, caller>>

\* PopupClose with the call of the awaited message cancelled
PopupClose_Cancels ==
  /\ popup # FreshPopup
  /\ popup' = FreshPopup
  /\ caller' = [r \in Reqs |->
                  IF r = popup.awaiting
                  THEN [caller[r] EXCEPT !.state = "gone", !.inFlight = Pending(r)]
                  ELSE caller[r]]
  /\ req' = [r \in Reqs |->
               IF r = popup.awaiting /\ Pending(r)
               THEN [req[r] EXCEPT !.pc = "responded", !.lookup = "none",
                                   !.response = [success |-> FALSE,
                                                 error |-> <<"cancelled">>]]
               ELSE req[r]]
  /\ UNCHANGED <<storage, now, n, page, dom>>

\* The popup is closed (and opened again later as a new document): its
\* callback is gone; the background script is not told.
PopupClose ==
  /\ popup # FreshPopup
  /\ popup' = FreshPopup
  /\ caller' = [r \in Reqs |->
                  IF r = popup.awaiting
                  THEN [caller[r] EXCEPT !.state = "gone", !.inFlight = Pending(r)]
                  ELSE caller[r]]
  /\ UNCHANGED <<core, page, dom>>

\* The page is left or reloaded: the content script starts afresh, the
\* callback and any fetch of the old one are gone.
PageReload ==
  /\ page # FreshPage(page.script)
  /\ page' = FreshPage(page.script)
  /\ caller' = [r \in Reqs |->
                  IF r = page.awaiting
                  THEN [caller[r] EXCEPT !.state = "gone", !.inFlight = Pending(r)]
                  ELSE caller[r]]
  /\ dom' = [FreshDom EXCEPT !.clock = dom.clock]
  /\ UNCHANGED <<core, popup>>

\* the upstream answers the entry points are exercised with: a translation
\* made afresh, and a rejected fetch
UISuccesses ==
  {[kind |-> "ok", body |-> [kind |-> "object", translation |-> "T1", cached |-> FALSE]]}
UIFailures == {[kind |-> "network"]}

\* the build ships one of the two content scripts
InitUI ==
  /\ storage = <<>>
  /\ now = 0
  /\ n = 0
  /\ req = [r \in Reqs |-> NoReq]
  /\ popup = FreshPopup
  /\ page \in {FreshPage(script) : script \in Scripts}
  /\ caller = [r \in Reqs |-> NoCaller]
  /\ dom = FreshDom

\* the entry points on top of the background script, while the clock stands
\* still
NextUI ==
  \/ \E input \in PopupInputs, sl \in PopupSourceLangs, tl \in PopupTargetLangs :
       handleTranslate(input, sl, tl)
  \/ \E selection \in Selections : handleTextSelection(selection)
  \/ \E selectionText \in MenuSelections : contextMenuClicked(selectionText)
  \/ \E r \in Reqs : Deliver(r)
  \/ DirectSettles
  \/ PopupClose
  \/ PageReload
  \/ \E r \in Reqs : GetSettles(r, TRUE)
  \/ \E r \in Reqs : GetSettles(r, FALSE)
  \/ \E r \in Reqs, o \in UISuccesses : FetchSettles(r, o)
  \/ \E r \in Reqs, o \in UIFailures : FetchSettles(r, o)
  \/ \E r \in Reqs : SetSettles(r, TRUE)
  \/ \E r \in Reqs : SetSettles(r, FALSE)

SpecUI == InitUI /\ [][NextUI]_vars

\* what the user may select on the page (an empty selection has a collapsed
\* range or none), and what the context menu may be clicked on
PageSelections ==
  {[text |-> t, rangeCount |-> 1] : t \in {<<"a">>, <<"b">>, <<"1">>, <<"a", "a">>}}
    \cup {[text |-> <<>>, rangeCount |-> c] : c \in {0, 1}}
PageMenuSelections == {<<"a">>, <<"1">>}

\* The content script with its document: selection events, the debounce
\* timer, the translation box and the context menu, on top of the background
\* script (whose storage calls succeed here).
NextPage ==
  \/ \E sel \in PageSelections : mouseup(sel)
  \/ \E tm \in dom.timers : translationTimeout(tm)
  \/ \E selectionText \in PageMenuSelections : contextMenuClicked(selectionText)
  \/ hideTranslationBox
  \/ TimePasses
  \/ \E r \in Reqs : Deliver(r)
  \/ \E r \in Reqs : GetSettles(r, TRUE)
  \/ \E r \in Reqs, o \in UISuccesses : FetchSettles(r, o)
  \/ \E r \in Reqs, o \in UIFailures : FetchSettles(r, o)
  \/ \E r \in Reqs : SetSettles(r, TRUE)

SpecPage == Init /\ [][NextPage]_vars

\* What the extension's own scheduling guarantees: a chrome.storage.local
\* call settles, and the response of the background script reaches a caller
\* that is still there.  Nothing in the code makes a fetch settle: that is
\* up to the upstream.
Fairness ==
  /\ WF_vars(\E r \in Reqs : GetSettles(r, TRUE) \/ GetSettles(r, FALSE))
  /\ WF_vars(\E r \in Reqs : SetSettles(r, TRUE) \/ SetSettles(r, FALSE))
  /\ WF_vars(\E r \in Reqs : Deliver(r))

SpecUILive == SpecUI /\ Fairness

\* the entry point that sent r went away before the response reached it
Orphan(r) == caller[r].state = "gone"

\* ----------------------------------------------------------------- claims

\* C1: requests with an identical (text, sourceLang, targetLang) that are
\* issued before any of them resolves make one upstream call between them.
\* (p \in peers of r: p was still pending when r arrived.)
C1_OneUpstreamCall ==
  \A r \in Reqs : \A p \in req[r].peers :
    ValidReq(r) => req[p].fetched + req[r].fetched <= 1

\* C2: translate requests for the same fingerprint that overlap in time
\* observe the same outcome: the same translation, or the same failure.
C2_SameOutcome ==
  \A r \in Reqs : \A p \in req[r].peers :
    (ValidReq(r) /\ Responded(p) /\ Responded(r)) => SameOutcome(p, r)

\* C3: after a request for a tuple has succeeded, every later request for
\* the same tuple within the TTL window makes no upstream call and returns
\* the same translation.  (p \in prior of r: p had succeeded when r arrived;
\* the clock only grows, so now - stamp < TTL puts all of r's life so far
\* inside the window of the entry p wrote.)
C3_HitWithinTTL ==
  \A r \in Reqs : \A p \in req[r].prior :
    (ValidReq(r) /\ GotTranslation(p) /\ req[p].fetched = 1 /\ now - req[p].stamp < TTL) =>
      /\ req[r].fetched = 0
      /\ Responded(r) =>
           /\ req[r].response.success
           /\ req[r].response.data.translation = req[p].response.data.translation

\* C4: a result served from the cache is tagged cached: true, the result of
\* the request that made the upstream call (and stored it) is tagged
\* cached: false, and the two differ in no other field.
C4_CachedTag ==
  \A r \in Reqs : \A p \in req[r].prior :
    (ValidReq(r) /\ GotTranslation(r) /\ req[r].fetched = 0 /\ req[p].fetched = 1) =>
      /\ req[r].response.data.cached
      /\ ~req[p].response.data.cached
      /\ req[r].response.data.translation = req[p].response.data.translation

\* C5: a failed upstream call (network error, non-OK status, unparsable
\* body) writes nothing to the cache; the cache holds successful results
\* only; no failure is answered without an upstream call of the request's
\* own; and a lookup that finds no entry is followed by an upstream call.
C5_FailureNotCached ==
  /\ [][\A r \in Reqs :
          (req[r].pc = "fetch" /\ Failed(r)') => storage' = storage]_vars
  /\ [](\A k \in DOMAIN storage : storage[k].data \in Bodies)
  /\ [](\A r \in Reqs : Failed(r) => req[r].fetched = 1)
  /\ [][\A r \in Reqs :
          (LookupStep(r) /\ KeyOf(r) \notin DOMAIN storage) =>
            (req'[r].pc = "fetch" /\ req'[r].fetched = 1)]_vars

\* C5 witness: a request failed, nothing is cached for its key, and a later
\* identical request (arrived after the failure) made its own upstream call.
C5_Witness ==
  \E p \in Reqs, r \in Reqs :
    /\ p < r /\ SameTuple(p, r) /\ Failed(p) /\ p \notin req[r].peers
    /\ KeyOf(p) \notin DOMAIN storage
    /\ req[r].fetched = 1

\* C6: a request issued after the TTL has elapsed since the entry of its key
\* was created makes an upstream call and returns a result tagged
\* cached: false.
C6_ExpiredRefetch ==
  \A r \in Reqs :
    (ValidReq(r) /\ req[r].stale) =>
      /\ req[r].pc # "get" => req[r].fetched = 1
      /\ GotTranslation(r) => ~req[r].response.data.cached

\* C7 as stated: an entry whose age is exactly the TTL is still returned by
\* the lookup.
C7_HitAtTTL ==
  [][\A r \in Reqs :
       (/\ ValidReq(r)
        /\ LookupStep(r)
        /\ req'[r].lookup # "error"
        /\ KeyOf(r) \in DOMAIN storage
        /\ now - storage[KeyOf(r)].timestamp = TTL)
       => (req'[r].pc = "responded" \/ req'[r].lookup = "falsy")]_vars

\* C7 as amended: an entry is expired once now - createdAt >= TTL; the lookup
\* returns the entry exactly when its age is strictly less than the TTL.
C7_ExpiredAtTTL ==
  [][\A r \in Reqs :
       (/\ LookupStep(r)
        /\ req'[r].lookup # "error"
        /\ KeyOf(r) \in DOMAIN storage)
       => (req'[r].lookup = "expired"
             <=> now - storage[KeyOf(r)].timestamp >= TTL)]_vars

\* C7 witness: a lookup has found an entry of age exactly TTL expired.
C7_Witness ==
  \E r \in Reqs :
    /\ req[r].pc = "fetch" /\ req[r].lookup = "expired"
    /\ KeyOf(r) \in DOMAIN storage
    /\ now - storage[KeyOf(r)].timestamp = TTL

\* C8: a lookup that finds an expired entry deletes it: after the lookup the
\* store holds no entry for that key.
C8_ExpiredDeleted ==
  [][\A r \in Reqs :
       (ValidReq(r) /\ LookupStep(r) /\ req'[r].lookup = "expired")
       => KeyOf(r) \notin DOMAIN storage']_vars

\* C9: the number of entries in the cache store never exceeds the
\* configured maximum (checked when every request is valid).
C9_BoundedStore == Cardinality(DOMAIN storage) <= MaxCacheEntries

\* C10: a request whose text is empty after trimming makes no upstream call
\* and is answered with a failure.
C10_EmptyRejected ==
  \A r \in Reqs :
    (req[r].pc # "none" /\ Trim(req[r].text) = <<>>) =>
      /\ req[r].fetched = 0
      /\ Responded(r) => ~req[r].response.success

\* C11: a translate request whose text is longer than the maximum length
\* makes no upstream call and is answered with a failure, whichever entry
\* point sent it.
C11_TooLongRejected ==
  \A r \in Reqs :
    (req[r].pc # "none" /\ Len(req[r].text) > MaxTextLength) =>
      /\ req[r].fetched = 0
      /\ Responded(r) => ~req[r].response.success

\* C12: no translate request whose sourceLang equals its targetLang (and is
\* not "auto") is ever sent, so none reaches the upstream fetch; the popup
\* answers the attempt with its same-language error and awaits nothing.
C12_SameLangRejected ==
  /\ \A r \in Reqs :
       (req[r].pc # "none" /\ req[r].sourceLang = req[r].targetLang) =>
         req[r].sourceLang = AUTO
  /\ popup.error = SameLangError => (~popup.isTranslating /\ popup.awaiting = 0)

\* C12 witness: the popup has rejected such an attempt and no message has
\* reached the background script.
C12_Witness == popup.error = SameLangError /\ n = 0

\* C13: isTranslating is set only while the attempt of its context has not
\* settled: the popup's flag is set only while the popup awaits a response
\* its callback has not received yet, the content script's only while it
\* awaits such a response or its own fetch; once the callback has run, after
\* a success or after a failure, the flag is false.
C13_FlagCleared ==
  /\ popup.isTranslating =>
       (popup.awaiting # 0 /\ caller[popup.awaiting].state = "waiting")
  /\ page.isTranslating =>
       \/ page.awaiting # 0 /\ caller[page.awaiting].state = "waiting"
       \/ page.fetching # <<>>
  /\ \A r \in Reqs :
       caller[r].state = "delivered" => (popup.awaiting # r /\ page.awaiting # r)

\* C13 witness: an attempt failed, its caller was told, and the same entry
\* point has issued the identical request again, which reached the
\* background script and made its own upstream call.
C13_Witness ==
  \E p \in Reqs, r \in Reqs :
    /\ p < r /\ SameTuple(p, r)
    /\ Failed(p) /\ caller[p].state = "delivered"
    /\ caller[r].from = caller[p].from
    /\ req[r].fetched = 1

\* C14: every request whose upstream call failed (fetch rejected, non-OK
\* status, unparsable body) has been answered, with {success: false, error}
\* carrying the message of that failure; and only such requests are answered
\* with a failure.
C14_FailureSurfaces ==
  \A r \in Reqs :
    /\ req[r].outcome.kind \in {"network", "status", "unparsable"} =>
         /\ Failed(r)
         /\ req[r].response.error = ErrorOf(req[r].outcome)
    /\ Failed(r) => req[r].outcome.kind \in {"network", "status", "unparsable"}

\* C14 witness: one request failed with a rejected fetch and another with an
\* unparsable body, and both were answered with a failure.
C14_Witness ==
  \E p \in Reqs, r \in Reqs :
    /\ Failed(p) /\ req[p].outcome.kind = "network"
    /\ Failed(r) /\ req[r].outcome.kind = "unparsable"

\* C15: a request whose upstream call ended with a non-OK status is answered
\* with a failure whose error text contains that status code.
C15_StatusVisible ==
  \A r \in Reqs :
    req[r].outcome.kind = "status" =>
      /\ Failed(r)
      /\ \E i \in DOMAIN req[r].response.error :
           req[r].response.error[i] = req[r].outcome.status

\* C15 witness: two requests met two different statuses and each was
\* answered with a failure.
C15_Witness ==
  \E p \in Reqs, r \in Reqs :
    /\ Failed(p) /\ req[p].outcome.kind = "status"
    /\ Failed(r) /\ req[r].outcome.kind = "status"
    /\ req[p].outcome.status # req[r].outcome.status

\* C16: a request whose upstream call was answered with an OK status and a
\* payload that holds no translation is answered with a failure, and no
\* such payload is ever in the cache.
C16_MalformedFails ==
  /\ \A r \in Reqs :
       (/\ ValidReq(r)
        /\ req[r].outcome.kind = "ok"
        /\ req[r].outcome.body.kind # "object"
        /\ Responded(r)) => ~req[r].response.success
  /\ \A k \in DOMAIN storage : storage[k].data.kind = "object"

\* C17: every upstream call is bounded: a request whose fetch is in flight
\* is eventually answered, whether or not the upstream answers.
C17_UpstreamBounded ==
  \A r \in Reqs : (req[r].pc = "fetch") ~> Responded(r)

C19_SharedCache ==
  /\ \A r \in Reqs : \A p \in req[r].prior :
       (/\ caller[p].from # caller[r].from
        /\ GotTranslation(p) /\ req[p].fetched = 1
        /\ now - req[p].stamp < TTL) => req[r].fetched = 0
  /\ \A p \in page.prior :
       (/\ caller[p].from = "popup"
        /\ GotTranslation(p) /\ req[p].fetched = 1
        /\ now - req[p].stamp < TTL) => page.fetching = <<>>

\* the message of r named no language: the content script sent it
Unspecified(r) == caller[r].from = "page"

\* C20 as stated: a request that names no source language is processed with
\* sourceLang "auto" and targetLang "zh-cn", in the cache key as in the
\* upstream request.
C20_DefaultAuto ==
  \A r \in Reqs :
    Unspecified(r) =>
      /\ req[r].sourceLang = <<"auto">>
      /\ req[r].targetLang = <<"zh-cn">>
      /\ KeyOf(r) = <<"translate_">> \o req[r].text \o <<"_", "auto", "_", "zh-cn">>

\* C20 as amended: a request that names no source language is processed with
\* sourceLang "en" and targetLang "zh-cn", in the cache key as in the
\* upstream request, and its result is stored under that key.
C20_DefaultEn ==
  \A r \in Reqs :
    Unspecified(r) =>
      /\ req[r].sourceLang = <<"en">>
      /\ req[r].targetLang = <<"zh-cn">>
      /\ KeyOf(r) = <<"translate_">> \o req[r].text \o <<"_", "en", "_", "zh-cn">>
      /\ (Succeeded(r) /\ req[r].stored) =>
           <<"translate_">> \o req[r].text \o <<"_", "en", "_", "zh-cn">>
             \in DOMAIN storage

\* C20 witness: a request sent by the content script, which names no
\* language, made its upstream call, succeeded and stored its result.
C20_Witness ==
  \E r \in Reqs :
    /\ Unspecified(r) /\ Succeeded(r) /\ req[r].fetched = 1 /\ req[r].stored
    /\ DOMAIN storage = {<<"translate_">> \o req[r].text \o <<"_", "en", "_", "zh-cn">>}

\* C23: a cache hit does not refresh the entry: the lookup that answers a
\* request from the cache leaves chrome.storage.local, and with it the
\* timestamp of the entry, as it was, so the entry still expires 24h after
\* it was written.
C23_HitKeepsEntry ==
  [][\A r \in Reqs :
       (req[r].pc = "get" /\ req'[r].pc = "responded") =>
         /\ storage' = storage
         /\ storage'[KeyOf(r)].timestamp + req'[r].age = now]_vars

\* C23 witness: a request was answered from an entry written twelve hours
\* before, and the entry still carries the time it was written at.
C23_Witness ==
  \E r \in Reqs : \E p \in req[r].prior :
    /\ Succeeded(r) /\ req[r].fetched = 0 /\ req[r].age > 0
    /\ req[p].fetched = 1 /\ req[p].stored
    /\ KeyOf(r) \in DOMAIN storage
    /\ storage[KeyOf(r)] = [data |-> req[p].body, timestamp |-> req[p].stamp]

\* C25: the listener sends exactly one response per message: a "translate"
\* message is answered once, when its translation has settled, with the
\* success or the failure of the translation and never with "Unknown
\* action"; a message with any other action is answered at once with
\* {success: false, error: "Unknown action"}; no message is answered twice.
C25_OneResponse ==
  \A r \in Reqs :
    /\ req[r].responses <= 1
    /\ req[r].responses = 1 <=> req[r].pc = "responded"
    /\ (req[r].action = "translate" /\ req[r].pc = "responded") =>
         (req[r].response.success \/ req[r].response.error # UnknownAction)
    /\ req[r].action \in OtherActions =>
         /\ req[r].pc = "responded"
         /\ req[r].response = [success |-> FALSE, error |-> UnknownAction]

\* C25 witness: a "translate" message and a message with another action have
\* both been answered.
C25_Witness ==
  \E r, q \in Reqs :
    /\ req[r].action = "translate" /\ req[r].pc = "responded"
    /\ req[r].responses = 1 /\ req[r].fetched = 1
    /\ req[q].action \in OtherActions /\ req[q].responses = 1

\* C27: storage failures never fail a translation: after a cache read that
\* raised an error the upstream call is made as after a miss, a request whose
\* upstream call succeeded is answered with that result as a success also when
\* the cache write failed, and a request fails only if its upstream call did.
C27_StorageFailureTolerated ==
  \A r \in Reqs :
    /\ req[r].lookup = "error" => (Pending(r) /\ req[r].fetched = 1)
    /\ (req[r].pc = "responded" /\ req[r].outcome.kind = "ok") =>
         req[r].response = [success |-> TRUE, data |-> req[r].body]
    /\ (req[r].action = "translate" /\ Failed(r)) =>
         req[r].outcome.kind \in {"network", "status", "unparsable"}

\* C27 witness: one request was answered with its translation although the
\* cache write failed, another is calling upstream after a failed cache read.
C27_Witness ==
  \E r, q \in Reqs :
    /\ Succeeded(r) /\ req[r].outcome.kind = "ok" /\ ~req[r].stored
    /\ req[r].response.data.kind = "object"
    /\ KeyOf(r) \notin DOMAIN storage
    /\ req[q].pc = "fetch" /\ req[q].lookup = "error"

\* the messages an entry point of the given kind has sent and still awaits
Outstanding(from) ==
  {r \in Reqs : caller[r].from = from /\ caller[r].state = "waiting"}

\* C26: in each user-interface context at most one translation request is
\* outstanding at any time: while a translation is in flight isTranslating is
\* true there, and an invocation in that state sends no message and makes no
\* network call (it is dropped; no state keeps it for later).
C26_OneOutstanding ==
  /\ Cardinality(Outstanding("popup")) <= 1
  /\ Cardinality(Outstanding("page")) + (IF page.fetching # <<>> THEN 1 ELSE 0) <= 1
  /\ \A r \in Outstanding("popup") : popup.isTranslating /\ popup.awaiting = r
  /\ \A r \in Outstanding("page") : page.isTranslating /\ page.awaiting = r
  /\ page.fetching # <<>> => page.isTranslating

\* C26 witness: the popup and the page each await a translation, and no
\* further message can be received.
C26_Witness ==
  /\ Cardinality(Outstanding("popup")) = 1
  /\ Cardinality(Outstanding("page")) = 1
  /\ popup.isTranslating /\ page.isTranslating

\* C28: the fingerprint is injective: two requests that differ in text,
\* sourceLang or targetLang never get the same cache key, also when the text
\* contains the "_" that separates the parts of the key; so an entry of the
\* cache is only ever returned to a request for the tuple it was stored for.
C28_KeyInjective ==
  /\ \A r, p \in Reqs :
       (req[r].pc # "none" /\ req[p].pc # "none" /\ KeyOf(r) = KeyOf(p)) =>
         SameTuple(r, p)
  /\ \A r \in Reqs :
       (Succeeded(r) /\ req[r].fetched = 0) =>
         \E p \in Reqs : /\ SameTuple(p, r) /\ req[p].fetched = 1
                         /\ req[p].body = req[r].body

\* C28 witness: two requests whose texts and languages differ although the
\* text of one ends in the language code of the other have both been
\* answered and stored under two keys.
C28_Witness ==
  /\ Succeeded(1) /\ Succeeded(2)
  /\ req[1].text = <<"a", "_", "e", "n">> /\ req[1].sourceLang = <<"e", "n">>
  /\ req[2].text = <<"a">> /\ req[2].sourceLang = <<"e", "n">>
  /\ req[1].targetLang = req[2].targetLang
  /\ Cardinality(DOMAIN storage) = 2

\* the callback of the timer tm runs in this step
Fired(tm) ==
  /\ tm \in dom.timers /\ tm \notin dom'.timers
  /\ dom'.translationTimeout = dom.translationTimeout
  /\ dom'.selection = dom.selection

\* the selection is one handleTextSelection sets a timer for
SelectionQualifies ==
  LET s == Trim(dom.selection.text) IN Len(s) > 0 /\ Len(s) < SelectionLimit

\* C21: when the translation started from the context menu has succeeded,
\* its result is displayed in the translation box: that is so at the moment
\* the answer reaches the content script (the only moment it has the
\* result), whether or not a box existed before.
C21_MenuResultShown ==
  [][\A r \in Reqs :
       (/\ caller[r].from = "page" /\ dom.via = "menu"
        /\ caller[r].state = "waiting" /\ caller'[r].state = "delivered"
        /\ GotTranslation(r)) =>
         dom'.box = [state |-> "result", text |-> req[r].text]]_vars

\* C22: a selection that qualifies (1 to 499 characters after trimming, more
\* than half of them English letters) and is still there when its debounce
\* timer fires gets a translation box and a translation of its own, also
\* when an earlier translation is in flight at that moment.
C22_SelectionTranslated ==
  [][\A tm \in dom.timers :
       (Fired(tm) /\ isEnglishText(tm.text) /\ Trim(dom.selection.text) = tm.text) =>
         /\ dom'.box = [state |-> "loading", text |-> tm.text]
         /\ n' = n + 1 /\ page'.awaiting = n'
         /\ req'[n'].text = tm.text]_vars

\* C24: the debounce: at most one timer is pending; the timer whose callback
\* runs is the one of the latest selection event that set a timer, no
\* earlier than 300 ms after that event; and a translation started for a
\* selection is started by such a callback, for the text of that event.  So
\* of a burst of events less than 300 ms apart only the last starts one.
C24_Debounce ==
  [][/\ Cardinality(dom.timers) <= 1
     /\ \A tm \in dom.timers :
          Fired(tm) => /\ tm.text = dom.last.text
                       /\ tm.due = dom.last.at + DebounceDelay
                       /\ dom.clock >= dom.last.at + DebounceDelay
     /\ (n' # n /\ dom'.via = "selection") =>
          /\ \E tm \in dom.timers : Fired(tm)
          /\ req'[n'].text = dom.last.text]_vars

\* C24 witness: the selection "a" was followed within 300 ms by the
\* selection "b", whose event cleared the timer of "a"; the one translation
\* that was started is for "b".
C24_Witness ==
  /\ dom.cancelled = <<"a">> /\ dom.last.text = <<"b">>
  /\ dom.timers = {} /\ dom.via = "selection"
  /\ n = 1 /\ req[1].text = <<"b">> /\ caller[1].from = "page"
  /\ dom.box.text = <<"b">>

\* C29: when the selection has been cleared, or has stopped qualifying,
\* before a pending debounce timer fires, the callback of the timer creates
\* no box and sends no request for the earlier selection.
C29_StaleTimerAbandoned ==
  [][\A tm \in dom.timers :
       (Fired(tm) /\ ~SelectionQualifies) =>
         (n' = n /\ dom'.box.state # "loading")]_vars

====
